---- MODULE Spec2Model ----
(***************************************************************************)
(* A model of lolviz.py's object-graph core: the reflective walker         *)
(* (closure / closure_), the edge extractor (node_edges / edges), the       *)
(* topology classifier (max_edges_in_connected_subgraphs /                 *)
(* connected_subgraphs) and the call-stack drawing (callsviz / obj_node).  *)
(*                                                                         *)
(* A Python value is an integer: 0 is None, a negative number is an atom   *)
(* (-1 an int, -2 a float, -3 a str) and a positive number is id(p), the   *)
(* identity of an object of the heap.  True and False are objects of type  *)
(* bool, as in Python 2: type(True) is bool, not int.                      *)
(***************************************************************************)
EXTENDS Integers, Sequences, FiniteSets, TLC

VARIABLES heap, root, varnames, pc, visited, result, stack, reachable,
          edgeList, max_edges_for_type, subgraphs, callstack, nodeStmts,
          drawnEdges

vars == <<heap, root, varnames, pc, visited, result, stack, reachable,
          edgeList, max_edges_for_type, subgraphs, callstack, nodeStmts,
          drawnEdges>>

\* ------------------------------------------------------------------ bounds

\* Objects of a heap of the mixed-shape family.
MaxObjs == 3

\* Reference-holding slots of a heap of the mixed-shape family.
MaxRefs == 2

\* Records of a heap of the linked family.
MaxNodes == 4

\* Depth of the binary tree of the tree family.
TreeDepth == 2

\* Depth of recursion at which the interpreter gives up on closure_.
MaxDepth == 10

\* Frames of the running program, the global scope included, of a heap of
\* the call-stack family.
MaxFrames == 2

\* ------------------------------------------------------------------ values

None == 0

AtomInt == -1

AtomFloat == -2

AtomStr == -3

\* type(p): the type of a value, by name.
TypeOf(p) ==
    IF p = None THEN "NoneType"
    ELSE IF p = AtomInt THEN "int"
    ELSE IF p = AtomFloat THEN "float"
    ELSE IF p = AtomStr THEN "str"
    ELSE heap[p].cls

isatom(p) == TypeOf(p) \in {"int", "float", "str"}

\* type(p) == types.FrameType
IsFrame(p) == TypeOf(p) = "frame"

\* type(p) == dict
IsDict(p) == TypeOf(p) = "dict"

\* hasattr(p, "__iter__"): dict, list and the user class IterObj define it.
HasIter(p) == TypeOf(p) \in {"dict", "list", "IterObj"}

\* hasattr(p, "__dict__"): instances of user classes have it, and so do
\* functions.
HasDict(p) == TypeOf(p) \in {"Node", "Tree", "Fan", "IterObj", "function"}

isplainobj(p) == /\ ~IsFrame(p)
                 /\ ~IsDict(p)
                 /\ ~HasIter(p)
                 /\ HasDict(p)

\* sym[0].startswith('_') for the names the model uses.
StartsWithUnderscore(k) == k \in {"_t"}

ignoresym(k, v) == \/ StartsWithUnderscore(k)
                   \/ TypeOf(v) \in {"function"}
                   \/ TypeOf(v) \in {"module"}

\* str(i) for the indices the model uses.
Str(i) == <<"0", "1", "2", "3", "4", "5", "6", "7", "8", "9">>[i + 1]

\* varnames is None, or a set of names.
NoNames == [none |-> TRUE, names |-> {}]

Names(S) == [none |-> FALSE, names |-> S]

\* FilteredOut that lets every name through.
FilteredNever(k, vn) == FALSE

\* varnames is not None and k not in varnames
FilteredOut(k, vn) == ~vn.none /\ k \notin vn.names

\* ------------------------------------------------------------------ objects

\* An object: its type, its items (of a dict, of __dict__ or of f_locals, in
\* the order .items() yields them), what iterating it yields, and for a
\* frame f_back and the name of its scope.
Obj(cls, items, elems) ==
    [cls |-> cls, items |-> items, elems |-> elems, back |-> None, scope |-> ""]

Frame(scope, items, back) ==
    [cls |-> "frame", items |-> items, elems |-> <<>>, back |-> back, scope |-> scope]

\* ------------------------------------------------------------------ walker

\* The values of a sequence of (key, value) items.
Values(items) == [i \in 1..Len(items) |-> items[i][2]]

\* The locals of a frame that closure_ and node_edges look at.
KeptLocals(f, vn) ==
    SelectSeq(heap[f].items,
              LAMBDA it : ~FilteredOut(it[1], vn) /\ ~ignoresym(it[1], it[2]))

\* Skip without the test of the visited set.
SkipVisitedUntested(p, vis) == \/ p = None
                               \/ isatom(p)

\* closure_ returns [] at once: p is None, an atom, or already visited.
Skip(p, vis) == \/ p = None
                \/ isatom(p)
                \/ p \in vis

\* Children that follows f_back from the global scope as well.
ChildrenPastGlobals(p, vn) ==
    IF IsFrame(p)
    THEN Values(KeptLocals(p, vn)) \o <<heap[p].back>>
    ELSE IF IsDict(p) THEN Values(heap[p].items)
    ELSE IF HasDict(p) THEN Values(heap[p].items)
    ELSE IF HasIter(p) THEN heap[p].elems
    ELSE <<>>

\* The values closure_ recurses into from p, in order.
Children(p, vn) ==
    IF IsFrame(p)
    THEN Values(KeptLocals(p, vn))
         \o (IF heap[p].scope # "<module>" THEN <<heap[p].back>> ELSE <<>>)
    ELSE IF IsDict(p) THEN Values(heap[p].items)
    ELSE IF HasDict(p) THEN Values(heap[p].items)
    ELSE IF HasIter(p) THEN heap[p].elems
    ELSE <<>>

\* Mark that forgets to record p.
MarkNothing(vis, p) == vis

\* visited.add(id(p))
Mark(vis, p) == vis \cup {p}

\* result.append(p) unless p is a frame.
Emit(res, p) == IF ~IsFrame(p) THEN Append(res, p) ELSE res

\* One call of closure_: the head of the innermost pending list is the
\* argument.  The stack holds, innermost first, what each active call has
\* still to recurse into; its outermost entry is closure's own call.
ClosureCall ==
    /\ pc = "closure"
    /\ stack # <<>>
    /\ Head(stack) # <<>>
    /\ LET p == Head(Head(stack))
           rest == <<Tail(Head(stack))>> \o Tail(stack)
       IN IF Skip(p, visited)
          THEN /\ stack' = rest
               /\ UNCHANGED <<pc, visited, result>>
          ELSE IF Len(stack) >= MaxDepth
          THEN /\ pc' = "error"
               /\ UNCHANGED <<stack, visited, result>>
          ELSE /\ visited' = Mark(visited, p)
               /\ result' = Emit(result, p)
               /\ stack' = <<Children(p, varnames)>> \o rest
               /\ pc' = pc
    /\ UNCHANGED <<heap, root, varnames, callstack, nodeStmts, drawnEdges,
                   reachable, edgeList,
                   max_edges_for_type, subgraphs>>

\* A call of closure_ has no child left and returns.
ClosureReturn ==
    /\ pc = "closure"
    /\ Len(stack) > 1
    /\ Head(stack) = <<>>
    /\ stack' = Tail(stack)
    /\ UNCHANGED <<heap, root, varnames, callstack, nodeStmts, drawnEdges,
                   pc, visited, result, reachable,
                   edgeList, max_edges_for_type, subgraphs>>

\* closure returns the list.
ClosureDone ==
    /\ pc = "closure"
    /\ stack = << <<>> >>
    /\ reachable' = result
    /\ stack' = <<>>
    /\ pc' = "edges"
    /\ UNCHANGED <<heap, root, varnames, callstack, nodeStmts, drawnEdges,
                   visited, result, edgeList,
                   max_edges_for_type, subgraphs>>

\* ------------------------------------------------------------------ edges

\* The edges (p, port, q) of the candidates (port, q) whose q is an object.
EdgesOf(p, cands) ==
    LET kept == SelectSeq(cands, LAMBDA c : ~isatom(c[2]) /\ c[2] # None)
    IN [i \in 1..Len(kept) |-> <<p, kept[i][1], kept[i][2]>>]

node_edges(p, vn) ==
    IF IsFrame(p) THEN EdgesOf(p, KeptLocals(p, vn))
    ELSE IF IsDict(p)
    THEN EdgesOf(p, [i \in 1..Len(heap[p].items) |-> <<Str(i - 1), heap[p].items[i][2]>>])
    ELSE IF HasIter(p)
    THEN EdgesOf(p, [i \in 1..Len(heap[p].elems) |-> <<Str(i - 1), heap[p].elems[i]>>])
    ELSE IF HasDict(p) THEN EdgesOf(p, heap[p].items)
    ELSE <<>>

RECURSIVE edges(_, _)
edges(reach, vn) ==
    IF reach = <<>> THEN <<>>
    ELSE node_edges(Head(reach), vn) \o edges(Tail(reach), vn)

Edges ==
    /\ pc = "edges"
    /\ edgeList' = edges(reachable, varnames)
    /\ pc' = "subgraphs"
    /\ UNCHANGED <<heap, root, varnames, callstack, nodeStmts, drawnEdges,
                   visited, result, stack, reachable,
                   max_edges_for_type, subgraphs>>

\* ------------------------------------------------------------------ topology

\* A dict with no key.
EmptyMap == [k \in {} |-> 0]

\* d[k] of a defaultdict(int).
Get(d, k) == IF k \in DOMAIN d THEN d[k] ELSE 0

\* d[k] = v
Put(d, k, v) == [x \in DOMAIN d \cup {k} |-> IF x = k THEN v ELSE d[x]]

\* Max that keeps the later of the two.
MaxLast(a, b) == b

Max(a, b) == IF a >= b THEN a ELSE b

\* m of max_edges_in_connected_subgraphs: the edges of p to an object of p's type.
SameTypeEdges(p, vn) ==
    SelectSeq(node_edges(p, vn), LAMBDA e : TypeOf(p) = TypeOf(e[3]))

RECURSIVE MaxEdgesLoop(_, _, _)
MaxEdgesLoop(reach, vn, m) ==
    IF reach = <<>> THEN m
    ELSE LET p == Head(reach)
             n == Len(SameTypeEdges(p, vn))
         IN IF ~isplainobj(p) \/ n = 0
            THEN MaxEdgesLoop(Tail(reach), vn, m)
            ELSE MaxEdgesLoop(Tail(reach), vn,
                              Put(m, TypeOf(p), Max(Get(m, TypeOf(p)), n)))

\* reach is closure(reachable, varnames), which the walker has computed.
max_edges_in_connected_subgraphs(reach, vn) == MaxEdgesLoop(reach, vn, EmptyMap)

\* Pinned that holds binary trees to one field as well.
PinnedUpToTwo(maxm, tfm, cls) == Get(maxm, cls) \in {1, 2} /\ cls \in DOMAIN tfm

\* Pinned that never holds: no field is kept to.
PinnedNever(maxm, tfm, cls) == FALSE

\* The test that keeps singly-linked nodes on one field: it applies to a
\* type of at most one same-type edge per node that has a field on record.
Pinned(maxm, tfm, cls) == Get(maxm, cls) = 1 /\ cls \in DOMAIN tfm

\* Touches that takes every subgraph for the one to extend.
TouchesAny(g, p, q) == TRUE

\* The subgraph g is the one to extend by the edge from p to q.
Touches(g, p, q) == p \in g \/ q \in g

\* The search for an existing subgraph, and the new subgraph when none is found.
AddToSubgraphs(cs, p, q) ==
    LET n == Len(cs.subgraphs)
        found == \E i \in 1..n : Touches(cs.subgraphs[i], p, q)
    IN IF found
       THEN [cs EXCEPT
               !.subgraphs = [i \in 1..n |->
                   IF Touches(cs.subgraphs[i], p, q)
                   THEN cs.subgraphs[i] \cup {p, q} ELSE cs.subgraphs[i]],
               !.subgraphobjs = [i \in 1..n |->
                   IF Touches(cs.subgraphs[i], p, q)
                   THEN cs.subgraphobjs[i] \o <<p, q>> ELSE cs.subgraphobjs[i]]]
       ELSE [cs EXCEPT !.subgraphs = Append(@, {p, q}),
                       !.subgraphobjs = Append(@, <<p, q>>)]

\* The body of the loop over the edges of p.
EdgeStep(cs, maxm, e) ==
    LET p == e[1]
        fieldname == e[2]
        q == e[3]
        cls == TypeOf(p)
    IN IF TypeOf(p) # TypeOf(q) THEN cs
       ELSE IF Pinned(maxm, cs.type_fieldname_map, cls)
       THEN IF fieldname # cs.type_fieldname_map[cls]
            THEN cs
            ELSE AddToSubgraphs(cs, p, q)
       ELSE AddToSubgraphs(
               [cs EXCEPT !.type_fieldname_map = Put(@, cls, fieldname)], p, q)

RECURSIVE EdgeLoop(_, _, _)
EdgeLoop(es, maxm, cs) ==
    IF es = <<>> THEN cs
    ELSE EdgeLoop(Tail(es), maxm, EdgeStep(cs, maxm, Head(es)))

RECURSIVE NodeLoop(_, _, _, _)
NodeLoop(reach, vn, maxm, cs) ==
    IF reach = <<>> THEN cs
    ELSE IF ~isplainobj(Head(reach))
    THEN NodeLoop(Tail(reach), vn, maxm, cs)
    ELSE NodeLoop(Tail(reach), vn, maxm,
                  EdgeLoop(node_edges(Head(reach), vn), maxm, cs))

\* set(g): the members of a list.
SetOf(g) == {g[i] : i \in 1..Len(g)}

\* The list uniq that connected_subgraphs returns, each group as the set of
\* its members: list(set(g)) fixes no order.  reach is closure(reachable, varnames).
connected_subgraphs(reach, vn) ==
    LET maxm == max_edges_in_connected_subgraphs(reach, vn)
        cs == NodeLoop(reach, vn, maxm,
                       [subgraphs |-> <<>>, subgraphobjs |-> <<>>,
                        type_fieldname_map |-> [k \in {} |-> ""]])
    IN [i \in 1..Len(cs.subgraphobjs) |-> SetOf(cs.subgraphobjs[i])]

ConnectedSubgraphs ==
    /\ pc = "subgraphs"
    /\ max_edges_for_type' = max_edges_in_connected_subgraphs(reachable, varnames)
    /\ subgraphs' = connected_subgraphs(reachable, varnames)
    /\ pc' = IF callstack = <<>> THEN "done" ELSE "draw"
    /\ UNCHANGED <<heap, root, varnames, callstack, nodeStmts, drawnEdges,
                   visited, result, stack, reachable,
                   edgeList>>

\* ------------------------------------------------------------------ drawing

\* What a node statement shows for the value v: an atom itself, and nothing
\* (None) for anything else.
Shown(v) == IF isatom(v) THEN v ELSE None

\* The items (port, key, value) of the node of a dict: the loop over
\* p.items(), its are the entries still to come and i the running index.
RECURSIVE DictItems(_, _, _)
DictItems(its, vn, i) ==
    IF its = <<>> THEN <<>>
    ELSE IF FilteredOut(Head(its)[1], vn) THEN DictItems(Tail(its), vn, i)
    ELSE << <<Str(i), Head(its)[1], Shown(Head(its)[2])>> >>
         \o DictItems(Tail(its), vn, i + 1)

\* The items (port, key, value) of a node whose ports are its keys.
NamedItems(items) ==
    [i \in 1..Len(items) |-> <<items[i][1], items[i][1], Shown(items[i][2])>>]

\* The node statements obj_node returns for p, none or one: the node and the
\* items its table shows, each with the port it defines.  The frames of the
\* model take no arguments (argnames is empty).  A list of atoms and any
\* other iterable get tables of different looks but the same ports.
obj_node(p, vn) ==
    IF IsFrame(p)
    THEN << [node |-> p, items |-> NamedItems(KeptLocals(p, vn))] >>
    ELSE IF IsDict(p)
    THEN << [node |-> p, items |-> DictItems(heap[p].items, vn, 0)] >>
    ELSE IF HasIter(p)
    THEN << [node |-> p,
             items |-> [i \in 1..Len(heap[p].elems) |->
                          <<Str(i - 1), Str(i - 1), Shown(heap[p].elems[i])>>]] >>
    ELSE IF HasDict(p)
    THEN << [node |-> p, items |-> NamedItems(heap[p].items)] >>
    ELSE <<>>

\* The loop that calls obj_node(p, vn) for each p of a list.
RECURSIVE NodesOf(_, _)
NodesOf(nodes, vn) ==
    IF nodes = <<>> THEN <<>>
    ELSE obj_node(Head(nodes), vn) \o NodesOf(Tail(nodes), vn)

obj_nodes(nodes) == NodesOf(nodes, NoNames)

\* A group as the list connected_subgraphs returns: list(set(g)), in some
\* order.  The order decides neither g[0]'s class nor which nodes are drawn.
RECURSIVE ListOf(_)
ListOf(g) ==
    IF g = {} THEN <<>>
    ELSE LET p == CHOOSE x \in g : \A y \in g : x <= y
         IN <<p>> \o ListOf(g \ {p})

\* The loop of callsviz over the groups: a group is drawn when the code of
\* the class of its first element is 1 (as a cluster) or 2.
RECURSIVE ClusterNodes(_, _)
ClusterNodes(gs, maxm) ==
    IF gs = <<>> THEN <<>>
    ELSE LET g == ListOf(Head(gs))
             firstelement == g[1]
         IN (IF Get(maxm, TypeOf(firstelement)) = 1 THEN obj_nodes(g)
             ELSE IF Get(maxm, TypeOf(firstelement)) = 2 THEN obj_nodes(g)
             ELSE <<>>)
            \o ClusterNodes(Tail(gs), maxm)

\* The loop of callsviz that dumps the nodes found in no group.
RECURSIVE DisconnectedNodes(_, _, _)
DisconnectedNodes(reach, gs, vn) ==
    IF reach = <<>> THEN <<>>
    ELSE LET p == Head(reach)
             found == \E i \in 1..Len(gs) : p \in gs[i]
         IN (IF ~found THEN obj_node(p, vn) ELSE <<>>)
            \o DisconnectedNodes(Tail(reach), gs, vn)

\* What callsviz writes once closure and connected_subgraphs have returned:
\* the node statements (the frames, the groups, the disconnected nodes) and
\* the edges (of the reachable set, then of the frames).
Callsviz ==
    /\ pc = "draw"
    /\ nodeStmts' = NodesOf(callstack, varnames)
                     \o ClusterNodes(subgraphs, max_edges_for_type)
                     \o DisconnectedNodes(reachable, subgraphs, varnames)
    /\ drawnEdges' = edges(reachable, NoNames) \o edges(callstack, varnames)
    /\ pc' = "done"
    /\ UNCHANGED <<heap, root, varnames, callstack, visited, result, stack,
                   reachable, edgeList, max_edges_for_type, subgraphs>>

\* ------------------------------------------------------------------ inputs

\* The atom an empty slot of object i holds, when it holds one.
AtomOf(i) == -(((i - 1) % 3) + 1)

\* An object of the mixed-shape family: type cls, two slots a and b.
Shaped(cls, a, b) ==
    IF cls = "dict" THEN Obj(cls, << <<"a", a>>, <<"b", b>> >>, <<>>)
    ELSE IF cls = "list" THEN Obj(cls, <<>>, <<a, b>>)
    ELSE IF cls = "Node" THEN Obj(cls, << <<"next", a>>, <<"prev", b>> >>, <<>>)
    ELSE IF cls = "IterObj" THEN Obj(cls, << <<"data", a>> >>, <<b>>)
    ELSE IF cls = "frame" THEN Frame("f", << <<"x", a>>, <<"y", b>> >>, None)
    ELSE Obj(cls, <<>>, <<>>)

\* The heap of the mixed-shape family: object 1 of type rc, the others of
\* type oc; refs gives the slots that refer to an object; a slot that does
\* not holds None (the first slot) or an atom (the second).
MixedHeap(rc, oc, refs) ==
    LET val(i, k) == IF <<i, k>> \in DOMAIN refs THEN refs[<<i, k>>]
                     ELSE IF k = 1 THEN None ELSE AtomOf(i)
    IN [i \in 1..MaxObjs |-> Shaped(IF i = 1 THEN rc ELSE oc, val(i, 1), val(i, 2))]

\* The linked family: MaxNodes Records of type Node and a list (the root)
\* that holds them all in some order.  Node i refers to node i+1 through
\* next when i is in links; at most one node (stray[1]) refers to a node
\* (stray[2]) through prev; prevFirst is the order of __dict__.items().
LinkedNode(i, links, stray, prevFirst) ==
    LET nx == <<"next", IF i \in links THEN i + 1 ELSE None>>
        pv == <<"prev", IF stray[1] = i THEN stray[2] ELSE None>>
        vl == <<"value", AtomOf(i)>>
    IN Obj("Node", IF prevFirst THEN <<vl, pv, nx>> ELSE <<vl, nx, pv>>, <<>>)

LinkedHeap(links, stray, prevFirst, order) ==
    [i \in 1..(MaxNodes + 1) |->
        IF i <= MaxNodes THEN LinkedNode(i, links, stray, prevFirst)
        ELSE Obj("list", <<>>, order)]

\* The tree family: the full binary tree of depth TreeDepth of Records of
\* type Tree, node i with children 2i and 2i+1, walked from its root;
\* rightFirst holds the nodes whose __dict__ yields right before left.
TreeSize == 2 ^ (TreeDepth + 1) - 1

TreeNode(i, rightFirst) ==
    LET inner == 2 * i + 1 <= TreeSize
        lf == <<"left", IF inner THEN 2 * i ELSE None>>
        rt == <<"right", IF inner THEN 2 * i + 1 ELSE None>>
        vl == <<"value", AtomOf(i)>>
    IN Obj("Tree", IF i \in rightFirst THEN <<vl, rt, lf>> ELSE <<vl, lf, rt>>, <<>>)

TreeHeap(rightFirst) == [i \in 1..TreeSize |-> TreeNode(i, rightFirst)]

\* The fan family: three Records of type Fan, which has the fields a, b, c;
\* node 1 (the root) holds a, b, c and node 2 holds d in its field a.
FanHeap(a, b, c, d) ==
    [i \in 1..3 |->
        IF i = 1 THEN Obj("Fan", << <<"a", a>>, <<"b", b>>, <<"c", c>> >>, <<>>)
        ELSE IF i = 2 THEN Obj("Fan", << <<"a", d>>, <<"b", None>>, <<"c", AtomInt>> >>, <<>>)
        ELSE Obj("Fan", << <<"a", None>>, <<"b", AtomStr>>, <<"c", None>> >>, <<>>)]

\* closure(p, varnames) is entered with p = r on the heap h; cs is the list
\* callstack of callsviz after its reversal, or empty outside callsviz.
Enter(h, r, vn, cs) ==
    /\ heap = h
    /\ root = r
    /\ varnames = vn
    /\ callstack = cs
    /\ nodeStmts = <<>>
    /\ drawnEdges = <<>>
    /\ pc = "closure"
    /\ visited = {}
    /\ result = <<>>
    /\ stack = << <<r>> >>
    /\ reachable = <<>>
    /\ edgeList = <<>>
    /\ max_edges_for_type = EmptyMap
    /\ subgraphs = <<>>

\* closure(r, varnames) called on its own.
Start(h, r, vn) == Enter(h, r, vn, <<>>)

\* The call-stack family.  Frame 1 is the global scope ('<module>') and
\* frame i > 1 is a call of a function f made from frame i - 1; the frame
\* after them is the launcher: what ran the module, when something did.
Launcher == MaxFrames + 1

\* The objects the frames can hold: a dict whose keys read like variable
\* names, a list (one of its elements is the list itself), a chain of two
\* Nodes, a Fan with three references to Fans (two to the same one, one to
\* itself), the launcher's own list, and a function.
TheDict == MaxFrames + 2

TheList == MaxFrames + 3

NodeA == MaxFrames + 4

NodeB == MaxFrames + 5

FanHub == MaxFrames + 6

FanLeaf == MaxFrames + 7

LauncherList == MaxFrames + 8

TheFunction == MaxFrames + 9

\* What the local x or y of a frame holds.
LocalVals == {AtomInt, TheDict, NodeA, FanHub}

\* a and b are the locals x and y of the global scope, xs[i] is the local x
\* of frame i, and launched says whether the global scope has an f_back.
CallsHeap(a, b, xs, launched) ==
    [i \in 1..TheFunction |->
        IF i = 1
        THEN Frame("<module>", << <<"x", a>>, <<"y", b>>, <<"f", TheFunction>> >>,
                   IF launched THEN Launcher ELSE None)
        ELSE IF i <= MaxFrames
        THEN Frame("f", << <<"_t", TheList>>, <<"x", xs[i]>> >>, i - 1)
        ELSE IF i = Launcher
        THEN Frame("run", << <<"x", LauncherList>> >>, None)
        ELSE IF i = TheDict
        THEN Obj("dict", << <<"x", AtomInt>>, <<"y", TheList>> >>, <<>>)
        ELSE IF i = TheList THEN Obj("list", <<>>, <<AtomStr, NodeA, TheList>>)
        ELSE IF i = NodeA
        THEN Obj("Node", << <<"value", AtomInt>>, <<"next", NodeB>> >>, <<>>)
        ELSE IF i = NodeB
        THEN Obj("Node", << <<"value", AtomFloat>>, <<"next", None>> >>, <<>>)
        ELSE IF i = FanHub
        THEN Obj("Fan", << <<"a", FanLeaf>>, <<"b", FanLeaf>>, <<"c", FanHub>> >>, <<>>)
        ELSE IF i = FanLeaf
        THEN Obj("Fan", << <<"a", None>>, <<"b", AtomStr>>, <<"c", None>> >>, <<>>)
        ELSE IF i = LauncherList THEN Obj("list", <<>>, <<AtomInt>>)
        ELSE Obj("function", <<>>, <<>>)]

\* The list callsviz builds when it is given no callstack: the frames of the
\* running program from f, its caller, outward, through the first one named
\* '<module>'.
RECURSIVE ReadStack(_, _)
ReadStack(h, f) ==
    IF f = None THEN <<>>
    ELSE IF h[f].scope = "<module>" THEN <<f>>
    ELSE <<f>> \o ReadStack(h, h[f].back)

\* list(reversed(callstack))
Reversed(s) == [i \in 1..Len(s) |-> s[Len(s) + 1 - i]]

\* callsviz(callstack, varnames) on the heap h, up to its call of closure:
\* given is the argument callstack, empty for None, and f the caller.
CallsvizStart(h, f, given, vn) ==
    LET cs == Reversed(IF given = <<>> THEN ReadStack(h, f) ELSE given)
        caller == cs[1]
    IN Enter(h, caller, vn, cs)

\* callsviz is called from the innermost frame with no callstack, with the
\* frames from the outermost in, or with one frame (as callviz does).
InitCallsOf(vals) ==
    \E a \in vals, b \in vals, xs \in [2..MaxFrames -> vals],
       launched \in BOOLEAN,
       vn \in {NoNames, Names({"x"}), Names({"y"})},
       given \in {<<>>, [i \in 1..MaxFrames |-> i]}
                 \cup {<<i>> : i \in 1..MaxFrames} :
      CallsvizStart(CallsHeap(a, b, xs, launched), MaxFrames, given, vn)

InitCalls == InitCallsOf(LocalVals)

InitShapes(rcs, ocs) ==
    \E rc \in rcs, oc \in ocs :
      \E E \in {S \in SUBSET ((1..MaxObjs) \X {1, 2}) : Cardinality(S) <= MaxRefs} :
        \E refs \in [E -> 1..MaxObjs] :
          Start(MixedHeap(rc, oc, refs), 1, NoNames)

InitMixed == InitShapes({"dict", "list", "Node", "IterObj", "frame"},
                        {"dict", "list", "Node", "IterObj", "frame", "bool"})

InitLinked ==
    \E links \in SUBSET (1..(MaxNodes - 1)),
       stray \in {<<0, 0>>} \cup ((1..MaxNodes) \X (1..MaxNodes)),
       prevFirst \in BOOLEAN :
      \E order \in {o \in [1..MaxNodes -> 1..MaxNodes] :
                      \A i, j \in 1..MaxNodes : o[i] = o[j] => i = j} :
        Start(LinkedHeap(links, stray, prevFirst, order), MaxNodes + 1, NoNames)

InitTree ==
    \E rightFirst \in SUBSET (1..(2 ^ TreeDepth - 1)) :
      Start(TreeHeap(rightFirst), 1, NoNames)

InitFan ==
    \E a \in 0..3, b \in 0..3, c \in 0..3, d \in 0..3 :
      Start(FanHeap(a, b, c, d), 1, NoNames)

Init == InitMixed \/ InitLinked \/ InitTree \/ InitFan \/ InitCalls

Next ==
    \/ ClosureCall
    \/ ClosureReturn
    \/ ClosureDone
    \/ Edges
    \/ ConnectedSubgraphs
    \/ Callsviz

Spec == Init /\ [][Next]_vars

\* A second specification for termination: the interpreter keeps running
\* the call until it returns or raises.
InitWalk ==
    \/ InitShapes({"dict", "list", "Node", "IterObj", "frame"},
                  {"dict", "list", "IterObj", "frame", "bool"})
    \/ InitCallsOf({AtomInt, TheDict})

LiveSpec == InitWalk /\ [][Next]_vars /\ WF_vars(Next)

\* ------------------------------------------------------------------ claims

\* closure has returned.
ClosureReturned == pc \in {"edges", "subgraphs", "draw", "done"}

\* The Records of the reachable set.
Records == {p \in SetOf(reachable) : isplainobj(p)}

\* The references (p, field, q) of the heap from a reachable Record p to an
\* object q of p's type.
SameClassRefs ==
    {<<p, heap[p].items[i][1], heap[p].items[i][2]>> :
        <<p, i>> \in {x \in Records \X (1..3) :
                        /\ x[2] <= Len(heap[x[1]].items)
                        /\ heap[x[1]].items[x[2]][2] > 0
                        /\ heap[heap[x[1]].items[x[2]][2]].cls = heap[x[1]].cls}}

\* The (object, position) pairs of the visited objects that hold q as a child.
Referrers(q) ==
    {x \in visited \X (1..3) :
        /\ x[2] <= Len(Children(x[1], varnames))
        /\ Children(x[1], varnames)[x[2]] = q}

\* C1: the list closure builds and returns holds every object at most once,
\* whatever the graph: shared objects and cycles included.
C1_NoDuplicateNodes ==
    /\ \A i, j \in 1..Len(result) : result[i] = result[j] => i = j
    /\ \A i, j \in 1..Len(reachable) : reachable[i] = reachable[j] => i = j

\* closure has returned a list that holds an object two places refer to.
C1_Witness ==
    /\ ClosureReturned
    /\ \E q \in SetOf(reachable) : Cardinality(Referrers(q)) >= 2

\* The root is a Record whose field next is the Record itself and whose
\* other fields hold no object.
SelfReferential ==
    /\ isplainobj(root)
    /\ \A i \in 1..Len(heap[root].items) :
          IF heap[root].items[i][1] = "next"
          THEN heap[root].items[i][2] = root
          ELSE heap[root].items[i][2] <= 0
    /\ \E i \in 1..Len(heap[root].items) : heap[root].items[i][1] = "next"

\* C2: closure returns (it neither runs forever nor raises), and for a Record
\* a with a.next = a as the root it returns the one node a.
C2_ClosureTerminates ==
    <>(ClosureReturned /\ (SelfReferential => reachable = <<root>>))

\* closure has returned for the self-referential Record.
C2_Witness == ClosureReturned /\ SelfReferential /\ reachable = <<root>>

\* C3 (as claimed): both ends of every edge of edges(closure(root)) are in
\* closure(root).
C3_EdgeEndpointsReachable ==
    pc = "done" =>
        \A i \in 1..Len(edgeList) :
            /\ edgeList[i][1] \in SetOf(reachable)
            /\ edgeList[i][3] \in SetOf(reachable)

\* C4 (as claimed): no object belongs to two of the groups that
\* connected_subgraphs returns.
C4_GroupsDisjoint ==
    \A i, j \in 1..Len(subgraphs) :
        i # j => subgraphs[i] \cap subgraphs[j] = {}

\* The sequences of n distinct members of S.
InjSeqs(S, n) == {s \in [1..n -> S] : \A i, j \in 1..n : s[i] = s[j] => i = j}

\* The references of a chain s[1] -> s[2] -> ... through next.
ChainOf(s) == {<<s[i], "next", s[i + 1]>> : i \in 1..(Len(s) - 1)}

\* C5 (as claimed): four Records linked A -> B -> C -> D through next, with no
\* other reference between Records of the class, get the code 1 and are
\* returned as the one group {A, B, C, D}, whatever order the walker found
\* them in.
C5_ChainOneGroup ==
    (pc = "done" /\ Cardinality(SameClassRefs) = 3) =>
        \A s \in InjSeqs(Records, 4) :
            SameClassRefs = ChainOf(s) =>
                /\ Get(max_edges_for_type, TypeOf(s[1])) = 1
                /\ subgraphs = <<SetOf(s)>>

\* The heap is the full binary tree of depth TreeDepth (7 Records at depth
\* 2): Record i refers to 2i through left and to 2i+1 through right, and the
\* walk starts at its root.
FullTree ==
    /\ root = 1
    /\ Records = 1..TreeSize
    /\ SameClassRefs = {<<i, "left", 2 * i>> : i \in 1..(2 ^ TreeDepth - 1)}
                       \cup {<<i, "right", 2 * i + 1>> : i \in 1..(2 ^ TreeDepth - 1)}

\* C6: the full binary tree walked from its root gets the code 2 and is
\* returned as one group that holds every node: left and right edges both
\* merge.
C6_TreeOneGroup ==
    (pc = "done" /\ FullTree) =>
        /\ Get(max_edges_for_type, TypeOf(root)) = 2
        /\ subgraphs = <<1..TreeSize>>

\* connected_subgraphs has returned the one group of the full tree.
C6_Witness == pc = "done" /\ FullTree /\ subgraphs = <<1..TreeSize>>

\* The number of references of the Record p to Records of its type.
OutDegree(p) == Cardinality({e \in SameClassRefs : e[1] = p})

\* C7 (as claimed): a class one of whose Records has 3 or more references to
\* Records of the class gets that maximum as its code, and no returned group
\* holds a node of the class.
C7_FanOutUnclustered ==
    pc = "done" =>
        \A p \in Records :
            OutDegree(p) >= 3 =>
                /\ \A q \in Records :
                      TypeOf(q) = TypeOf(p) =>
                          OutDegree(q) <= Get(max_edges_for_type, TypeOf(p))
                /\ \E q \in Records :
                      /\ TypeOf(q) = TypeOf(p)
                      /\ OutDegree(q) = Get(max_edges_for_type, TypeOf(p))
                /\ \A i \in 1..Len(subgraphs) :
                      \A q \in subgraphs[i] : TypeOf(q) # TypeOf(p)

\* The references e1 = (a, next, b) and e2 = (b, next, c) are a chain of 3
\* Records, e3 = (h, prev, b) refers to its middle, there is no other
\* reference between Records, and the class has the code 1.
StrayPrev(e1, e2, e3) ==
    /\ e1[2] = "next" /\ e2[2] = "next" /\ e3[2] = "prev"
    /\ e1[3] = e2[1] /\ e3[3] = e2[1]
    /\ Cardinality({e1[1], e2[1], e2[3]}) = 3
    /\ Get(max_edges_for_type, TypeOf(e1[1])) = 1

\* The field of the first edge between Records of one type that the scan of
\* connected_subgraphs meets ("" when there is none).
FirstFieldMet ==
    LET es == SelectSeq(edgeList,
                        LAMBDA e : isplainobj(e[1]) /\ TypeOf(e[1]) = TypeOf(e[3]))
    IN IF es = <<>> THEN "" ELSE es[1][2]

\* C8 (as claimed): with a next chain of 3 and a stray prev reference into
\* its middle, the chain is the one group, whichever edge is met first.
C8_NextChainOnly ==
    LET refs == SameClassRefs
    IN (pc = "done" /\ Cardinality(refs) = 3) =>
        \A e1, e2, e3 \in refs :
            StrayPrev(e1, e2, e3) => subgraphs = <<{e1[1], e2[1], e2[3]}>>

\* C8 (amended): the field of the first edge met is the one followed.  When
\* it is next, the chain is the one group and the prev edge merges nothing;
\* when it is prev, the one group is the prev edge's two ends.
C8_FirstFieldPinned ==
    LET refs == SameClassRefs
    IN (pc = "done" /\ Cardinality(refs) = 3) =>
        \A e1, e2, e3 \in refs :
            StrayPrev(e1, e2, e3) =>
                /\ FirstFieldMet = "next" => subgraphs = <<{e1[1], e2[1], e2[3]}>>
                /\ FirstFieldMet = "prev" => subgraphs = <<{e3[1], e3[3]}>>

\* The scan met a next edge first, the holder of prev is outside the chain
\* and the chain is the one group.
C8_Witness ==
    /\ pc = "done"
    /\ Cardinality(SameClassRefs) = 3
    /\ \E e1, e2, e3 \in SameClassRefs :
          /\ StrayPrev(e1, e2, e3)
          /\ e3[1] \notin {e1[1], e2[1], e2[3]}
          /\ FirstFieldMet = "next"
          /\ subgraphs = <<{e1[1], e2[1], e2[3]}>>

\* The references e1 and e2 are two chains of 2 Records through one field.
TwoChains(e1, e2) ==
    /\ e1[2] = e2[2]
    /\ Cardinality({e1[1], e1[3], e2[1], e2[3]}) = 4

\* C9: two chains of 2 Records, linked through the same field and with no
\* reference from one to the other, are returned as two groups of 2, one per
\* chain.
C9_TwoChainsTwoGroups ==
    LET refs == SameClassRefs
    IN (pc = "done" /\ Cardinality(refs) = 2) =>
        \A e1, e2 \in refs :
            TwoChains(e1, e2) =>
                /\ Len(subgraphs) = 2
                /\ {subgraphs[1], subgraphs[2]} = {{e1[1], e1[3]}, {e2[1], e2[3]}}

\* connected_subgraphs has returned the two groups of two separate chains.
C9_Witness ==
    /\ pc = "done"
    /\ Len(subgraphs) = 2
    /\ Cardinality(SameClassRefs) = 2
    /\ \E e1, e2 \in SameClassRefs :
          /\ TwoChains(e1, e2)
          /\ subgraphs[1] \cap subgraphs[2] = {}

\* A scalar as the specification has it: a number, a text or a boolean.
IsScalar(v) == TypeOf(v) \in {"int", "float", "str", "bool"}

\* C10 (as claimed): neither a scalar nor None is ever a node of closure or
\* the target of an edge.
C10_ScalarsNeverNodes ==
    /\ \A i \in 1..Len(result) : ~IsScalar(result[i]) /\ result[i] # None
    /\ \A i \in 1..Len(edgeList) : ~IsScalar(edgeList[i][3]) /\ edgeList[i][3] # None

\* The objects among the values of a sequence, in order.
ObjectsOf(vals) == SelectSeq(vals, LAMBDA v : v > 0)

\* The targets of a sequence of edges, in order.
TargetsOf(es) == [i \in 1..Len(es) |-> es[i][3]]

\* C11 (as claimed): closure and node_edges enumerate the children of an
\* object by the same class: the edges of a visited node that is no Scope
\* end at the objects closure recursed into from it, and an object that has
\* both iteration and named fields is enumerated by iteration in both.
C11_SameClassInBoth ==
    \A p \in visited :
        ~IsFrame(p) =>
            /\ TargetsOf(node_edges(p, varnames)) = ObjectsOf(Children(p, varnames))
            /\ (HasIter(p) /\ HasDict(p)) => Children(p, varnames) = heap[p].elems

\* callsviz has written its output.
Drawn == pc = "done" /\ callstack # <<>>

\* The name filter permits the local k.
Permitted(k) == varnames.none \/ k \in varnames.names

\* The locals (f, k, v) of the frames of the callstack that the name filter
\* permits, that are not excluded, and that are bound to an object.
ShownBindings ==
    {<<x[1], heap[x[1]].items[x[2]][1], heap[x[1]].items[x[2]][2]>> :
        x \in {y \in SetOf(callstack) \X (1..3) :
                 /\ y[2] <= Len(heap[y[1]].items)
                 /\ Permitted(heap[y[1]].items[y[2]][1])
                 /\ ~ignoresym(heap[y[1]].items[y[2]][1], heap[y[1]].items[y[2]][2])
                 /\ heap[y[1]].items[y[2]][2] > 0}}

\* C12 (as claimed): when callsviz draws several frames, every object bound
\* to a permitted, non-excluded local of any of them is in the reachable set,
\* once, and so every edge drawn from a frame ends at a node of the reachable
\* set.
C12_AllFramesReachable ==
    Drawn =>
        /\ \A b \in ShownBindings :
              Cardinality({i \in 1..Len(reachable) : reachable[i] = b[3]}) = 1
        /\ \A i \in 1..Len(drawnEdges) :
              IsFrame(drawnEdges[i][1]) => drawnEdges[i][3] \in SetOf(reachable)

\* The objects one step from p when the name filter applies to the locals of
\* a Scope and to nothing else: the permitted, non-excluded locals of a frame
\* and its f_back short of the global scope; of any other object, what the
\* walker enumerates when no filter is given.
Successors(p) ==
    IF IsFrame(p)
    THEN {v \in {heap[p].items[i][2] :
                   i \in {j \in 1..Len(heap[p].items) :
                            /\ Permitted(heap[p].items[j][1])
                            /\ ~ignoresym(heap[p].items[j][1], heap[p].items[j][2])}} :
             v > 0}
         \cup (IF heap[p].scope # "<module>" /\ heap[p].back > 0
               THEN {heap[p].back} ELSE {})
    ELSE {v \in SetOf(Children(p, NoNames)) : v > 0}

\* The objects any number of steps from those of S.
RECURSIVE ReachFrom(_)
ReachFrom(S) ==
    LET T == S \cup UNION {Successors(p) : p \in S}
    IN IF T = S THEN S ELSE ReachFrom(T)

\* The edges drawn from frames.
FrameEdges == {drawnEdges[i] : i \in {j \in 1..Len(drawnEdges) : IsFrame(drawnEdges[j][1])}}

\* C13: a name filter applies to the locals of Scopes and to nothing else.
\* The walk visits exactly the objects reached through permitted locals,
\* f_back, and every entry, element and field of the other nodes, named in
\* the filter or not; the edges of a node that is no Scope are those found
\* with no filter; and the edges drawn from frames are exactly the permitted,
\* non-excluded locals bound to objects.
C13_FilterOnScopesOnly ==
    pc = "done" =>
        /\ visited = ReachFrom({root})
        /\ \A p \in SetOf(reachable) :
              SelectSeq(edgeList, LAMBDA e : e[1] = p) = node_edges(p, NoNames)
        /\ callstack # <<>> => FrameEdges = ShownBindings

\* callsviz has drawn, with a filter, a frame one of whose locals is bound to
\* an object but filtered out, neither visited nor given an edge, and a dict
\* an entry of which is not named in the filter and yet visited and given an
\* edge.
C13_Witness ==
    /\ Drawn
    /\ ~varnames.none
    /\ \E f \in SetOf(callstack) \cap visited :
          \E i \in 1..Len(heap[f].items) :
              /\ ~Permitted(heap[f].items[i][1])
              /\ heap[f].items[i][2] > 0
              /\ heap[f].items[i][2] \notin visited
              /\ \A e \in FrameEdges : e[3] # heap[f].items[i][2]
    /\ \E d \in visited :
          /\ IsDict(d)
          /\ \E i \in 1..Len(heap[d].items) :
                /\ ~Permitted(heap[d].items[i][1])
                /\ heap[d].items[i][2] \in visited
                /\ <<d, Str(i - 1), heap[d].items[i][2]>> \in SetOf(edgeList)

\* The scopes from the frame f outward, through the first one named
\* '<module>'.
RECURSIVE ScopeChain(_)
ScopeChain(f) ==
    IF f <= 0 THEN {}
    ELSE IF heap[f].scope = "<module>" THEN {f}
    ELSE {f} \cup ScopeChain(heap[f].back)

\* Every frame from f outward.
RECURSIVE Outward(_)
Outward(f) == IF f <= 0 THEN {} ELSE {f} \cup Outward(heap[f].back)

\* The frames beyond the global scope of the chain of f.
Beyond(f) == Outward(f) \ ScopeChain(f)

\* Every value the object p holds.
Held(p) == SetOf(Values(heap[p].items)) \cup SetOf(heap[p].elems) \cup {heap[p].back}

\* The objects that nothing but the frames of B holds.
HeldOnlyBy(B) ==
    {v \in DOMAIN heap :
        /\ \E b \in B : v \in Held(b)
        /\ \A p \in DOMAIN heap \ B : v \notin Held(p)}

\* C14: closure started at a frame walks the chain of scopes up to and
\* including the global scope, the permitted locals of each, and stops
\* there: no frame beyond the global scope is entered, and no object held
\* only by such frames is visited.
C14_StopsAtGlobals ==
    (ClosureReturned /\ IsFrame(root)) =>
        /\ ScopeChain(root) \subseteq visited
        /\ \A f \in ScopeChain(root) :
              \A i \in 1..Len(heap[f].items) :
                  (/\ Permitted(heap[f].items[i][1])
                   /\ ~ignoresym(heap[f].items[i][1], heap[f].items[i][2])
                   /\ heap[f].items[i][2] > 0) => heap[f].items[i][2] \in visited
        /\ Beyond(root) \cap visited = {}
        /\ HeldOnlyBy(Beyond(root)) \cap visited = {}

\* closure has returned from a walk that began in a function's frame, went
\* through the global scope, which something launched, and left out the
\* launcher and the list that only the launcher holds.
C14_Witness ==
    /\ ClosureReturned
    /\ IsFrame(root)
    /\ heap[root].scope # "<module>"
    /\ \E g \in ScopeChain(root) \cap visited :
          /\ heap[g].scope = "<module>"
          /\ heap[g].back \in Beyond(root)
    /\ HeldOnlyBy(Beyond(root)) # {}
    /\ HeldOnlyBy(Beyond(root)) \cap visited = {}

\* The classes of the Records that refer to a Record of their class.
LinkedClasses == {TypeOf(e[1]) : e \in SameClassRefs}

\* C15: max_edges_in_connected_subgraphs maps each class to the largest
\* number of references one reachable Record of the class has to Records of
\* the class, each reference counted (two fields that hold the same object
\* count twice, a reference to itself once); what is no Record adds nothing,
\* and a class none of whose Records refers to its class is absent.
C15_MaxSameClassEdges ==
    LET refs == SameClassRefs
        deg(p) == Cardinality({e \in refs : e[1] = p})
    IN pc = "done" =>
        /\ DOMAIN max_edges_for_type = {TypeOf(e[1]) : e \in refs}
        /\ \A p \in Records : deg(p) <= Get(max_edges_for_type, TypeOf(p))
        /\ \A c \in DOMAIN max_edges_for_type :
              \E p \in Records : TypeOf(p) = c /\ deg(p) = max_edges_for_type[c]

\* The map is computed for a heap where a Record holds the same Record in
\* two fields and itself in a third, a later Record of the class has fewer
\* references, and something that is no Record refers to its own kind.
C15_Witness ==
    /\ pc = "done"
    /\ \E e1, e2, e3 \in SameClassRefs :
          /\ e1[1] = e2[1] /\ e1[2] # e2[2] /\ e1[3] = e2[3]
          /\ e3[1] = e1[1] /\ e3[3] = e1[1]
          /\ max_edges_for_type[TypeOf(e1[1])] = OutDegree(e1[1])
          /\ \E q \in Records : TypeOf(q) = TypeOf(e1[1]) /\ OutDegree(q) < OutDegree(e1[1])
    /\ \E i \in 1..Len(edgeList) :
          /\ ~isplainobj(edgeList[i][1])
          /\ TypeOf(edgeList[i][1]) = TypeOf(edgeList[i][3])

\* The number of node statements callsviz wrote for p.
StatementsFor(p) == Cardinality({i \in 1..Len(nodeStmts) : nodeStmts[i].node = p})

\* C16 (as claimed): callsviz writes exactly one node statement for every
\* object of the reachable set, whatever the code of its class and whether
\* or not it is in a group.
C16_OneNodeStatement ==
    Drawn => \A p \in SetOf(reachable) : StatementsFor(p) = 1

\* C17 (as claimed): the port of every edge drawn from a dict is a port the
\* node statement of that dict defines, and the two name the same entry,
\* with a name filter or without.
C17_MappingPortsAgree ==
    Drawn =>
        \A i \in 1..Len(drawnEdges) :
            LET d == drawnEdges[i][1]
                port == drawnEdges[i][2]
            IN IsDict(d) =>
                \A n \in 1..Len(nodeStmts) :
                    nodeStmts[n].node = d =>
                        \E k \in 1..Len(nodeStmts[n].items),
                           j \in 1..Len(heap[d].items) :
                            /\ nodeStmts[n].items[k][1] = port
                            /\ Str(j - 1) = port
                            /\ nodeStmts[n].items[k][2] = heap[d].items[j][1]
                            /\ drawnEdges[i][3] = heap[d].items[j][2]

====
